---------------------------- MODULE Spec2Model ----------------------------
(***************************************************************************)
(* Storage and cache resilience layer of the case-manager backend.         *)
(*                                                                         *)
(*   Spec       the blob store (src/utils/storage.ts) with the /uploads    *)
(*              file proxy and static serving (src/unnamed/part_000)       *)
(*   CacheSpec  the Redis cache facade RedisCache                          *)
(*              (src/utils/performance.ts)                                 *)
(*                                                                         *)
(* Strings that the code splits on '/' are modelled as the sequence of     *)
(* their segments: "/uploads/a.pdf" is <<"", "uploads", "a.pdf">>.         *)
(***************************************************************************)
EXTENDS Integers, Sequences, FiniteSets, TLC

VARIABLES
    \* ---- blob store ----
    env,        \* process.env: the four RAILWAY_BUCKET_* variables
    s3Client,   \* storage.ts:30  TRUE when the module-level client is non-null
    bucket,     \* the remote object store: key -> payload or None
    disk,       \* the local uploads directory: file name -> payload or None
    uploadsDir, \* the local uploads directory exists
    last,       \* the storage call that completed last, with its outcome
    px,         \* the /uploads request being served, and its response
    stored,     \* history: file name -> payload of the last upload that returned
    gone,       \* history: file name -> uploads and deleteFile calls so far
    \* ---- cache facade (RedisCache) ----
    redisUrl,   \* process.env.REDIS_URL is set
    redis,      \* this.redis is non-null
    useRedis,   \* this.useRedis
    handlers,   \* the 'error' and 'connect' handlers are registered
    conn,       \* the client's connection: connecting, up, down, closed
    memoryCache,\* this.memoryCache: key -> entry or NoEntry
    rstore,     \* the Redis database: key -> stored string or NoValue
    wire,       \* commands sent and not yet answered, oldest first
    pc,         \* caller -> where its cache call is suspended, or idle
    loc,        \* caller -> the locals of its suspended call
    res,        \* the cache call that completed last, with its result
    fresh,      \* history: the set that completed last, while nothing has
                \* written its key since
    now,        \* Date.now()
    calls,      \* the number of cache calls made so far
    connectionAttempted, \* this.connectionAttempted
    clients,    \* history: the number of Redis clients created so far
    \* ---- case-template routes over the in-memory cache (MemoryCache) ----
    templates,  \* the templates table, as the number of writes applied to it
    entries,    \* MemoryCache.memoryCache: key -> entry or NoCached
    listReq,    \* the GET / request being served
    mutReq,     \* the POST /, PUT /:id or DELETE /:id request being served
    completed,  \* history: the number of mutations that have been answered
    reply,      \* history: the GET / response sent last
    \* ---- a MemoryCache given the calls of the facade ----
    mirror,     \* MemoryCache.memoryCache: key -> entry or NoEntry
    mres        \* the result of the MemoryCache call that completed last

blobVars == <<env, s3Client, bucket, disk, uploadsDir, last, px, stored, gone>>

initVars == <<connectionAttempted, clients>>

twinVars == <<mirror, mres>>

cacheVars == <<redisUrl, redis, useRedis, handlers, conn, memoryCache, rstore,
               wire, pc, loc, res, fresh, now, calls, initVars, twinVars>>

vars == <<env, s3Client, bucket, disk, uploadsDir, last, px, stored, gone,
          redisUrl, redis, useRedis, handlers, conn, memoryCache, rstore,
          wire, pc, loc, res, fresh, now, calls, connectionAttempted, clients,
          templates, entries, listReq, mutReq, completed, reply,
          mirror, mres>>

templateVars == <<templates, entries, listReq, mutReq, completed, reply>>

None == "none"

-----------------------------------------------------------------------------
(* Values the blob store works on                                          *)

FileNames == {<<"a.pdf">>}
Payloads  == {"P1", "P2"}

\* `/uploads/${fileName}`  (storage.ts:88, 144)
Ref(fileName) == <<"", "uploads">> \o fileName

\* `uploads/${fileName}`  (storage.ts:72, 161)
KeyOf(fileName) == <<"uploads">> \o fileName

BucketKeys == {KeyOf(f) : f \in FileNames}

\* The empty string: ''.split('/') is [''].
EmptyStr == <<"">>

Lookup(store, k) == IF k \in DOMAIN store THEN store[k] ELSE None


-----------------------------------------------------------------------------
(* Configuration                                                           *)

\* A variable of process.env: unset/empty, set to a real value, or set to
\* the placeholder text of the setup instructions.
EnvValues == {"", "set", "placeholder"}

\* The access key can also be a real value of few characters; the bucket
\* name, like the keys, can be left at the placeholder of the instructions.
Envs ==
    [endpoint : {"", "set"}, bucketName : EnvValues,
     accessKey : EnvValues \cup {"short"}, secretKey : EnvValues]

\* The text of a variable of process.env, as its sequence of characters.
EnvText(name, v) ==
    CASE v = "" -> <<>>
      [] v = "placeholder" ->
            <<"Y", "O", "U", "R", "_", "K", "E", "Y", "_", "H", "E", "R", "E">>
      [] v = "short" -> <<"A", "K", "0", "1">>
      [] name = "endpoint" -> <<"h", "o", "s", "t">>
      [] name = "bucketName" -> <<"b", "k", "t">>
      [] name = "accessKey" ->
            <<"A", "K", "0", "1", "2", "3", "4", "5", "6", "7">>
      [] OTHER -> <<"s", "3", "c", "r", "3", "t">>

\* A configuration test that does not look at the secret key.
IsRailwayBucketConfiguredLax(e) ==
    /\ e.endpoint # ""
    /\ e.bucketName # ""
    /\ e.accessKey # ""

IsRailwayBucketConfigured(e) ==
    /\ e.endpoint # ""
    /\ e.bucketName # ""
    /\ e.accessKey # ""
    /\ e.secretKey # ""

\* The module-level initialisation of s3Client.
InitS3Client(e) ==
    IF IsRailwayBucketConfigured(e)
    THEN IF e.accessKey = "placeholder" \/ e.secretKey = "placeholder"
         THEN FALSE
         ELSE TRUE
    ELSE FALSE

\* `s3Client && isRailwayBucketConfigured()`: the test each operation makes.
UseBucket == s3Client /\ IsRailwayBucketConfigured(env)

IsUsingBucketStorage == IsRailwayBucketConfigured(env) /\ s3Client

-----------------------------------------------------------------------------
(* Errors a remote call can reject with                                    *)

Undefined == "undefined"

\* A message that contains the text 'does not exist', and one that does not.
MsgNoBucket == "The specified bucket does not exist"
MsgOther    == "request failed"

PutErrors ==
    [Code    : {Undefined, "AccessDenied", "NoSuchBucket"},
     name    : {"Error", "AccessDenied"},
     message : {Undefined, MsgNoBucket, MsgOther}]

\* No error: the request succeeded, or none was made.
NoError == [Code |-> None, name |-> None, message |-> None]

\* The error of a failed delete, head or signing request.
SomeError == [Code |-> Undefined, name |-> "Error", message |-> MsgOther]

MessageIncludesDoesNotExist(m) == m = MsgNoBucket

\* The catch block of uploadFile: what it does with the error of the put.
\*   "TypeError": error.message is undefined, so error.message.includes
\*                throws inside the catch block and the TypeError escapes
\*   "fallback" : fall through to the local write
\*   "throw"    : throw the access-denied diagnostic
UploadCatch(e) ==
    IF e.message = Undefined THEN "TypeError"
    ELSE IF \/ MessageIncludesDoesNotExist(e.message)
            \/ e.name = "NoSuchBucket"
            \/ e.Code = "NoSuchBucket"
         THEN "fallback"
    ELSE IF e.Code = "AccessDenied" \/ e.name = "AccessDenied" THEN "throw"
    ELSE "fallback"

\* accessKey.substring(0, 8)
PreviewLen == 8

Substring(t, n) == SubSeq(t, 1, IF Len(t) < n THEN Len(t) ELSE n)

\* The configuration lines of the access-denied error's message.
NoMsg == [bucketName |-> <<>>, endpoint |-> <<>>, accessKeyPreview |-> <<>>]

NotSet == <<"N", "o", "t", " ", "s", "e", "t">>

AccessDeniedMessage(e) ==
    [bucketName |-> EnvText("bucketName", e.bucketName),
     endpoint |-> IF e.endpoint # "" THEN EnvText("endpoint", e.endpoint)
                  ELSE NotSet,
     accessKeyPreview |->
        IF e.accessKey # ""
        THEN Substring(EnvText("accessKey", e.accessKey), PreviewLen)
                 \o <<".", ".", ".">>
        ELSE NotSet]

-----------------------------------------------------------------------------
(* Key resolution of getFileUrl and fileExists                             *)

IsHttp(u) == Len(u) >= 2 /\ u[1] \in {"http:", "https:"} /\ u[2] = ""

StartsWithUploadsSlash(u) == Len(u) >= 3 /\ u[1] = "" /\ u[2] = "uploads"

LastSeg(u) == u[Len(u)]

UploadsIndex(u) ==
    IF \E i \in 1..Len(u) : u[i] = "uploads"
    THEN CHOOSE i \in 1..Len(u) :
            /\ u[i] = "uploads"
            /\ \A j \in 1..(i - 1) : u[j] # "uploads"
    ELSE 0

\* fileName of the three branches (a non-empty address)
ResolveFileName(u) ==
    IF IsHttp(u) THEN <<LastSeg(u)>>
    ELSE IF StartsWithUploadsSlash(u) THEN SubSeq(u, 3, Len(u))
    ELSE IF LastSeg(u) # "" THEN <<LastSeg(u)>> ELSE u

\* bucketKey of the three branches
ResolveBucketKey(u) ==
    IF IsHttp(u)
    THEN IF UploadsIndex(u) # 0
         THEN SubSeq(u, UploadsIndex(u), Len(u))
         ELSE <<"uploads", LastSeg(u)>>
    ELSE IF StartsWithUploadsSlash(u) THEN <<"uploads">> \o SubSeq(u, 3, Len(u))
    ELSE IF Len(u) >= 2 /\ u[1] = "uploads" THEN u
    ELSE <<"uploads">> \o ResolveFileName(u)

\* decodeURIComponent, on the file names of the model: the only percent
\* decoding the code does is the route handler's, of the request path.
DecodeURIComponent(seg) == IF seg = "a%20b.pdf" THEN "a b.pdf" ELSE seg

\* The addresses the storage calls are given: the refs uploadFile returns,
\* an absolute URL, a bare file name, the ref of a file never uploaded, a
\* percent-encoded file name and a path outside /uploads/.
Addresses ==
    {Ref(f) : f \in FileNames}
        \cup {<<"https:", "", "host", "bkt", "uploads", "a.pdf">>, <<"a.pdf">>,
              <<"", "uploads", "clients", "b.pdf">>, <<"a%20b.pdf">>,
              <<"", "files", "a.pdf">>}


-----------------------------------------------------------------------------
(* The blob store: uploadFile, deleteFile, getFileUrl, fileExists          *)
(*                                                                         *)
(* Each call is one action; the outcome of the remote request it makes is  *)
(* an input of the action.  The local filesystem is taken to be reliable.  *)

NoCall == [op |-> "none", arg |-> <<>>, err |-> NoError, raised |-> FALSE,
           ret |-> <<>>, local |-> FALSE, remote |-> FALSE, mkdir |-> FALSE,
           msg |-> NoMsg]

\* History of a file name: up, an upload of it has returned; n, the number
\* (up to 2) of deleteFile calls on its ref that returned since; ok, one of
\* them ran in local mode or had its remote delete request succeed.
NeverStored == [up |-> FALSE, n |-> 0, ok |-> FALSE]
NotGone     == [up |-> TRUE, n |-> 0, ok |-> FALSE]

\* A storage call on file name f makes the response of a request for f that
\* is in progress, or already given, say nothing about the store afterwards.
Touch(f) == IF px.file = f THEN [px EXCEPT !.clean = FALSE] ELSE px

\* The local branch of uploadFile: mkdir -p, writeFile, return the ref.
UploadLocal(f, P, e) ==
    /\ uploadsDir' = TRUE
    /\ disk' = [disk EXCEPT ![f] = P]
    /\ bucket' = bucket
    /\ stored' = [stored EXCEPT ![f] = P]
    /\ gone' = [gone EXCEPT ![f] = NotGone]
    /\ last' = [op |-> "upload", arg |-> f, err |-> e, raised |-> FALSE,
                ret |-> Ref(f), local |-> TRUE, remote |-> (e # NoError),
                mkdir |-> ~uploadsDir, msg |-> NoMsg]

\* uploadFile rejects: nothing is stored.
UploadRaise(f, e) ==
    /\ UNCHANGED <<disk, uploadsDir, bucket, stored, gone>>
    /\ last' = [op |-> "upload", arg |-> f, err |-> e, raised |-> TRUE,
                ret |-> <<>>, local |-> FALSE, remote |-> TRUE,
                mkdir |-> FALSE,
                msg |-> IF UploadCatch(e) = "throw"
                        THEN AccessDeniedMessage(env) ELSE NoMsg]

\* (an uploadFile that stays on the local filesystem once a remote request
\* has failed)
UploadFileSticky(f, P) ==
    /\ px' = Touch(f)
    /\ UNCHANGED <<env, s3Client>>
    /\ UNCHANGED <<cacheVars, templateVars>>
    /\ IF UseBucket /\ last.err = NoError
       THEN \/ /\ bucket' = [bucket EXCEPT ![KeyOf(f)] = P]
               /\ UNCHANGED <<disk, uploadsDir>>
               /\ stored' = [stored EXCEPT ![f] = P]
               /\ gone' = [gone EXCEPT ![f] = NotGone]
               /\ last' = [op |-> "upload", arg |-> f, err |-> NoError,
                           raised |-> FALSE, ret |-> Ref(f), local |-> FALSE,
                           remote |-> TRUE, mkdir |-> FALSE, msg |-> NoMsg]
            \/ \E e \in PutErrors :
                  IF UploadCatch(e) = "fallback"
                  THEN UploadLocal(f, P, e)
                  ELSE UploadRaise(f, e)
       ELSE UploadLocal(f, P, NoError)

UploadFile(f, P) ==
    /\ px' = Touch(f)
    /\ UNCHANGED <<env, s3Client>>
    /\ UNCHANGED <<cacheVars, templateVars>>
    /\ IF UseBucket
       THEN \/ \* the put succeeds
               /\ bucket' = [bucket EXCEPT ![KeyOf(f)] = P]
               /\ UNCHANGED <<disk, uploadsDir>>
               /\ stored' = [stored EXCEPT ![f] = P]
               /\ gone' = [gone EXCEPT ![f] = NotGone]
               /\ last' = [op |-> "upload", arg |-> f, err |-> NoError,
                           raised |-> FALSE, ret |-> Ref(f), local |-> FALSE,
                           remote |-> TRUE, mkdir |-> FALSE, msg |-> NoMsg]
            \/ \* the put rejects with e
               \E e \in PutErrors :
                  IF UploadCatch(e) = "fallback"
                  THEN UploadLocal(f, P, e)
                  ELSE UploadRaise(f, e)
       ELSE UploadLocal(f, P, NoError)

\* What a returned deleteFile(ref of f) leaves in the history.
Deleted(f, ok) ==
    [gone EXCEPT ![f] = [up |-> @.up, n |-> IF @.n < 2 THEN @.n + 1 ELSE 2,
                         ok |-> @.ok \/ ok]]

DeleteRecord(u, e, viaBucket) ==
    [op |-> "delete", arg |-> u, err |-> e, raised |-> FALSE, ret |-> <<>>,
     local |-> ~viaBucket, remote |-> viaBucket, mkdir |-> FALSE,
     msg |-> NoMsg]

\* (a deleteFile whose remote branch forgets to send the delete request)
DeleteRemoteNoRequest(u, f, ok) ==
    /\ UNCHANGED <<bucket, disk>>
    /\ gone' = IF f \in FileNames THEN Deleted(f, ok) ELSE gone
    /\ last' = DeleteRecord(u, IF ok THEN NoError ELSE SomeError, TRUE)

\* The remote branch of deleteFile; ok is the outcome of the delete request.
DeleteRemote(u, f, ok) ==
    /\ bucket' = IF ok /\ KeyOf(f) \in DOMAIN bucket
                 THEN [bucket EXCEPT ![KeyOf(f)] = None] ELSE bucket
    /\ disk' = disk
    /\ gone' = IF f \in FileNames THEN Deleted(f, ok) ELSE gone
    /\ last' = DeleteRecord(u, IF ok THEN NoError ELSE SomeError, TRUE)

\* The local branch of deleteFile: unlink when the file is there.
DeleteLocal(u, f) ==
    /\ disk' = IF f \in DOMAIN disk THEN [disk EXCEPT ![f] = None] ELSE disk
    /\ bucket' = bucket
    /\ gone' = IF f \in FileNames THEN Deleted(f, TRUE) ELSE gone
    /\ last' = DeleteRecord(u, NoError, FALSE)

\* (a deleteFile that resolves every non-empty address to a file name)
DeleteFileLenient(u) ==
    /\ UNCHANGED <<env, s3Client, uploadsDir>>
    /\ UNCHANGED <<cacheVars, templateVars>>
    /\ IF u = EmptyStr
       THEN /\ UNCHANGED <<bucket, disk, stored, gone, px>>
            /\ last' = [DeleteRecord(u, NoError, FALSE) EXCEPT !.local = FALSE]
       ELSE LET f == ResolveFileName(u) IN
            /\ px' = Touch(f)
            /\ stored' = IF f \in FileNames
                         THEN [stored EXCEPT ![f] = None] ELSE stored
            /\ IF UseBucket
               THEN \E ok \in BOOLEAN : DeleteRemote(u, f, ok)
               ELSE DeleteLocal(u, f)

DeleteFile(u) ==
    /\ UNCHANGED <<env, s3Client, uploadsDir>>
    /\ UNCHANGED <<cacheVars, templateVars>>
    /\ IF u = EmptyStr \/ ~StartsWithUploadsSlash(u)
       THEN /\ UNCHANGED <<bucket, disk, stored, gone, px>>
            /\ last' = [DeleteRecord(u, NoError, FALSE) EXCEPT !.local = FALSE]
       ELSE LET f == SubSeq(u, 3, Len(u)) IN
            /\ px' = Touch(f)
            /\ stored' = IF f \in FileNames
                         THEN [stored EXCEPT ![f] = None] ELSE stored
            /\ IF UseBucket
               THEN \E ok \in BOOLEAN : DeleteRemote(u, f, ok)
               ELSE DeleteLocal(u, f)

\* (a fileExists that takes a probe failure other than not-found for
\* presence)
FileExistsResultOptimistic(u, fault) ==
    IF u = EmptyStr THEN FALSE
    ELSE IF ~UseBucket THEN Lookup(disk, ResolveFileName(u)) # None
    ELSE IF fault THEN TRUE
    ELSE Lookup(bucket, ResolveBucketKey(u)) # None

\* The result of fileExists(u); fault: the head request fails with an error
\* other than not-found.
FileExistsResult(u, fault) ==
    IF u = EmptyStr THEN FALSE
    ELSE IF ~UseBucket THEN Lookup(disk, ResolveFileName(u)) # None
    ELSE IF fault THEN FALSE
    ELSE Lookup(bucket, ResolveBucketKey(u)) # None

FileExists(u) ==
    /\ \E fault \in (IF UseBucket /\ u # EmptyStr THEN BOOLEAN ELSE {FALSE}) :
          last' = [op |-> "exists", arg |-> u,
                   err |-> IF fault THEN SomeError ELSE NoError, raised |-> FALSE,
                   ret |-> FileExistsResult(u, fault),
                   local |-> (u # EmptyStr /\ ~UseBucket),
                   remote |-> (u # EmptyStr /\ UseBucket),
                   mkdir |-> FALSE, msg |-> NoMsg]
    /\ UNCHANGED <<env, s3Client, bucket, disk, uploadsDir, px, stored, gone>>
    /\ UNCHANGED <<cacheVars, templateVars>>

\* What getFileUrl returns: null, a root-relative path, or a signed URL for
\* a key (fetching it reads that key of the bucket).
NullUrl     == [signed |-> FALSE, path |-> <<>>]
PathUrl(u)  == [signed |-> FALSE, path |-> u]
Signed(key) == [signed |-> TRUE, path |-> key]

\* The result of getFileUrl(u, expiresIn); fault: signing fails.
GetFileUrlResult(u, fault) ==
    IF u = EmptyStr THEN NullUrl
    ELSE IF ~UseBucket
         THEN IF u[1] = "" THEN PathUrl(u)
              ELSE PathUrl(<<"", "uploads">> \o ResolveFileName(u))
    ELSE IF fault THEN NullUrl
    ELSE Signed(ResolveBucketKey(u))

GetFileUrl(u) ==
    /\ \E fault \in (IF UseBucket /\ u # EmptyStr THEN BOOLEAN ELSE {FALSE}) :
          last' = [op |-> "getFileUrl", arg |-> u,
                   err |-> IF fault THEN SomeError ELSE NoError, raised |-> FALSE,
                   ret |-> GetFileUrlResult(u, fault), local |-> FALSE,
                   remote |-> (u # EmptyStr /\ UseBucket),
                   mkdir |-> FALSE, msg |-> NoMsg]
    /\ UNCHANGED <<env, s3Client, bucket, disk, uploadsDir, px, stored, gone>>
    /\ UNCHANGED <<cacheVars, templateVars>>


-----------------------------------------------------------------------------
(* Serving GET /uploads/<file>                                             *)
(*                                                                         *)
(* With bucket storage the route handler proxies the file; it suspends at  *)
(* fileExists, at getFileUrl and at fetch, and storage calls of other      *)
(* requests run in between.  Without it the static file server answers.    *)

\* sent: the number of responses given to the request; why: what the
\* handler met on its way to the response.
Idle == [pc |-> "idle", file |-> <<>>, url |-> NullUrl, status |-> 0,
         fields |-> {}, body |-> None, clean |-> TRUE, sent |-> 0,
         why |-> "none"]

Respond(status, fields, body) ==
    [px EXCEPT !.pc = "done", !.status = status, !.fields = fields,
               !.body = body, !.sent = @ + 1]

\* (a handler without its catch block: the exception ends the handler and
\* no response is given)
ProxyCatchMissing ==
    [px EXCEPT !.pc = "done", !.clean = FALSE, !.why = "exception"]

\* The catch block of the route handler.
ProxyCatch ==
    [Respond(500, {"error", "details"}, None)
        EXCEPT !.clean = FALSE, !.why = "exception"]

\* A request arrives; filename is the decoded rest of the path.  A path
\* with nothing after /uploads/ is answered 400.
ProxyStart(f) ==
    /\ IsUsingBucketStorage
    /\ px.pc \in {"idle", "done"}
    /\ px' = IF f = EmptyStr
             THEN [Idle EXCEPT !.pc = "done", !.file = f, !.status = 400,
                               !.fields = {"error"}, !.sent = 1,
                               !.why = "badPath"]
             ELSE [Idle EXCEPT !.pc = "exists", !.file = f]
    /\ UNCHANGED <<env, s3Client, bucket, disk, uploadsDir, last, stored, gone>>
    /\ UNCHANGED <<cacheVars, templateVars>>

\* const exists = await fileExists(`/uploads/${filename}`); the await can
\* also reject (part_000:82 awaits the import of the storage module too).
ProxyExists ==
    /\ px.pc = "exists"
    /\ \/ \E fault \in BOOLEAN :
             LET clean == px.clean /\ ~fault IN
             IF FileExistsResult(Ref(px.file), fault)
             THEN px' = [px EXCEPT !.pc = "sign", !.clean = clean]
             ELSE px' = [Respond(404, {"error", "filename", "requestedUrl",
                                       "message"}, None)
                           EXCEPT !.clean = clean, !.why = "missing"]
       \/ px' = ProxyCatch
    /\ UNCHANGED <<env, s3Client, bucket, disk, uploadsDir, last, stored, gone>>
    /\ UNCHANGED <<cacheVars, templateVars>>

\* const signedUrl = await getFileUrl(fileUrl, 3600)
ProxySign ==
    /\ px.pc = "sign"
    /\ \/ \E fault \in BOOLEAN :
             LET url == GetFileUrlResult(Ref(px.file), fault) IN
             IF url = NullUrl
             THEN px' = [Respond(500, {"error", "filename", "message"}, None)
                           EXCEPT !.clean = FALSE, !.why = "nullUrl"]
             ELSE px' = [px EXCEPT !.pc = "fetch", !.url = url]
       \/ px' = ProxyCatch
    /\ UNCHANGED <<env, s3Client, bucket, disk, uploadsDir, last, stored, gone>>
    /\ UNCHANGED <<cacheVars, templateVars>>

\* const response = await fetch(signedUrl), then the body is read and sent.
\* outcome: the fetch resolves, or it (or reading the body) throws.
ProxyFetch ==
    /\ px.pc = "fetch"
    /\ \E outcome \in {"resolves", "throws"} :
          IF outcome = "throws"
          THEN px' = ProxyCatch
          ELSE LET obj == Lookup(bucket, px.url.path) IN
               IF obj # None
               THEN px' = [Respond(200, {}, obj) EXCEPT !.why = "ok"]
               ELSE px' = [Respond(404, {"error"}, None)
                             EXCEPT !.why = "fetchNotOk"]
    /\ UNCHANGED <<env, s3Client, bucket, disk, uploadsDir, last, stored, gone>>
    /\ UNCHANGED <<cacheVars, templateVars>>

\* Local storage: the static file server answers from the uploads directory
\* the path that getFileUrl gives for the ref.
StaticServe(f) ==
    /\ ~IsUsingBucketStorage
    /\ LET url  == GetFileUrlResult(Ref(f), FALSE)
           file == Lookup(disk, SubSeq(url.path, 3, Len(url.path)))
       IN px' = IF file # None
                THEN [Idle EXCEPT !.pc = "done", !.file = f, !.url = url,
                                  !.status = 200, !.body = file, !.sent = 1,
                                  !.why = "static"]
                ELSE [Idle EXCEPT !.pc = "done", !.file = f, !.url = url,
                                  !.status = 404, !.sent = 1,
                                  !.why = "static"]
    /\ UNCHANGED <<env, s3Client, bucket, disk, uploadsDir, last, stored, gone>>
    /\ UNCHANGED <<cacheVars, templateVars>>

-----------------------------------------------------------------------------
(* The cache facade RedisCache                                             *)
(*                                                                         *)
(* Time is counted in units of which SecMs make one second; DefaultTTL is  *)
(* the 5 minute default in the same units.  A call runs to its first await *)
(* in one step; the commands it sends are answered in the order sent, and  *)
(* the answer resumes the call.  A command can also be rejected.           *)

Keys == {"k1"}
Vals == {"v1", "v2"}
Null == "null"

Procs == {1, 2}

\* The constructor's initRedis, as a sender of commands.
InitProc == 0

\* The clock runs from 0 to MaxTime; at most MaxCalls calls of the facade are
\* made; a ttl argument is at most MaxTtl.
MaxTime    == 2
MaxCalls   == 2
MaxTtl     == 1

\* this.defaultTTL (5 minutes) and the 1000 ms of a second, in time units
DefaultTTL == 2
SecMs      == 2

\* The ttl argument of set: omitted, or a number of time units.
TtlArgs == {[given |-> FALSE, ms |-> 0]} \cup {[given |-> TRUE, ms |-> t] : t \in 0..MaxTtl}

\* `ttl || this.defaultTTL`
TtlOrDefault(ttl) == IF ttl.given /\ ttl.ms # 0 THEN ttl.ms ELSE DefaultTTL

\* Math.ceil(x / 1000)
CeilSeconds(x) == (x + SecMs - 1) \div SecMs

NoEntry == [data |-> None, expires |-> 0]

MakeEntry(data, expires) == [data |-> data, expires |-> expires]

\* What a key of the Redis database holds: nothing, the JSON text of an
\* entry (with the moment Redis expires the key), or text that is not JSON.
NoValue == [kind |-> "nil", data |-> None, expires |-> 0, wireExp |-> 0]
Garbage == [kind |-> "garbage", data |-> None, expires |-> 0, wireExp |-> 0]

\* JSON.stringify(entry), stored by SETEX key ttlSeconds at time t
Stringified(entry, ttlSeconds, t) ==
    [kind |-> "json", data |-> entry.data, expires |-> entry.expires,
     wireExp |-> t + ttlSeconds * SecMs]

\* The reply of GET key: Redis holds a key until its expiry time has passed.
RedisGet(k) ==
    IF rstore[k].kind = "json" /\ now > rstore[k].wireExp THEN NoValue
    ELSE rstore[k]

IdleLoc == [key |-> "", data |-> None, expires |-> 0, ttlSeconds |-> 0,
            ttl |-> [given |-> FALSE, ms |-> 0], want |-> "nowant"]

NoResult == [op |-> "none", key |-> "", ret |-> Null, raised |-> FALSE,
             failed |-> FALSE, src |-> "none", left |-> 0, want |-> "nowant"]

NoFresh == [valid |-> FALSE, key |-> "", val |-> None, exp |-> 0]

\* The record of a completed call.  failed: a remote call of it failed;
\* src: where a returned value came from; left: expires - now of the entry
\* it returned; want: what a get that follows a set has to return.
Done(op, k, ret, failed, src, left, want) ==
    [op |-> op, key |-> k, ret |-> ret, raised |-> FALSE, failed |-> failed,
     src |-> src, left |-> left, want |-> want]

Send(p) == wire' = Append(wire, p)

Without(p) == SelectSeq(wire, LAMBDA x : x # p)

Sent(p) == \E i \in 1..Len(wire) : wire[i] = p

\* The command of p is the oldest one and the connection is up.
Answer(p) == wire # <<>> /\ Head(wire) = p /\ conn = "up"

\* `this.useRedis && this.redis`
Remote == useRedis /\ redis

Writes == {"set", "delete", "clear"}

\* A write of key k starts (k = "" for clear): the set recorded in fresh is
\* no longer the last word on its key.
Stale(k) == IF fresh.valid /\ (k = "" \/ fresh.key = k) THEN NoFresh ELSE fresh

\* What the claim "set then get" asks of a get(k) that starts now.
WantAtStart(k) ==
    IF fresh.valid /\ fresh.key = k
    THEN IF now < fresh.exp THEN "value"
         ELSE IF now > fresh.exp THEN "null" ELSE "nowant"
    ELSE "nowant"

\* ... and of that get when it returns.
WantAtReturn(k, w) ==
    IF w # "nowant" /\ fresh.valid /\ fresh.key = k
    THEN IF w = "null" THEN Null
         ELSE IF now < fresh.exp THEN fresh.val ELSE "nowant"
    ELSE "nowant"

-----------------------------------------------------------------------------
(* MemoryCache, given the calls of the facade at the same times            *)

\* defaultTTL of MemoryCache, 5 * 60 * 1000 as that of RedisCache, in the
\* time unit of the facade.
TwinDefaultTTL == DefaultTTL

NoTwinResult == [op |-> "none", key |-> "", ret |-> Null, keys |-> {}]

TwinDone(op, k, ret, keys) == [op |-> op, key |-> k, ret |-> ret, keys |-> keys]

TwinExpired(k) == mirror[k] # NoEntry /\ mirror[k].expires < now

\* MemoryCache.get
TwinGet(k) ==
    /\ mirror' = IF TwinExpired(k) THEN [mirror EXCEPT ![k] = NoEntry] ELSE mirror
    /\ mres' = TwinDone("get", k,
                        IF mirror[k] = NoEntry \/ TwinExpired(k) THEN Null
                        ELSE mirror[k].data, {})

\* MemoryCache.set: expires = Date.now() + (ttl || this.defaultTTL)
TwinSet(k, v, ttl) ==
    /\ mirror' = [mirror EXCEPT ![k] =
                     MakeEntry(v, now + (IF ttl.given /\ ttl.ms # 0 THEN ttl.ms
                                         ELSE TwinDefaultTTL))]
    /\ mres' = TwinDone("set", k, Null, {})

\* MemoryCache.delete
TwinDelete(k) ==
    /\ mirror' = [mirror EXCEPT ![k] = NoEntry]
    /\ mres' = TwinDone("delete", k, Null, {})

\* MemoryCache.clear
TwinClear ==
    /\ mirror' = [k \in Keys |-> NoEntry]
    /\ mres' = TwinDone("clear", "", Null, {})

\* MemoryCache.cleanup, on the same interval as the facade's
TwinCleanup ==
    /\ mirror' = [k \in Keys |-> IF TwinExpired(k) THEN NoEntry ELSE mirror[k]]
    /\ mres' = mres

\* MemoryCache.getStats: type 'memory', and the keys of the map
TwinStats ==
    /\ mirror' = mirror
    /\ mres' = TwinDone("stats", "", "memory", {k \in Keys : mirror[k] # NoEntry})

\* The MemoryCache runs beside the facade when no REDIS_URL is set.
Twin(call) == IF redisUrl THEN UNCHANGED twinVars ELSE call

-----------------------------------------------------------------------------
(* initRedis and the client's events                                       *)

\* (an initRedis without the connectionAttempted guard)
InitRedisUnguarded ==
    /\ connectionAttempted' = TRUE
    /\ IF redisUrl /\ clients < 2
       THEN /\ redis' = TRUE
            /\ clients' = clients + 1
            /\ wire' = IF Sent(InitProc) THEN wire ELSE Append(wire, InitProc)
       ELSE UNCHANGED <<redis, clients, wire>>
    /\ UNCHANGED <<redisUrl, useRedis, handlers, conn, memoryCache, rstore,
                   pc, loc, res, fresh, now, calls>>
    /\ UNCHANGED <<blobVars, templateVars, twinVars>>

\* initRedis entered, up to its await of ping: it returns at once when an
\* attempt has been made; otherwise it notes the attempt and, with REDIS_URL
\* set, creates the client and sends ping.
InitRedis ==
    /\ IF connectionAttempted
       THEN UNCHANGED <<connectionAttempted, redis, clients, wire>>
       ELSE /\ connectionAttempted' = TRUE
            /\ IF redisUrl
               THEN /\ redis' = TRUE
                    /\ clients' = clients + 1
                    /\ wire' = Append(wire, InitProc)
               ELSE UNCHANGED <<redis, clients, wire>>
    /\ UNCHANGED <<redisUrl, useRedis, handlers, conn, memoryCache, rstore,
                   pc, loc, res, fresh, now, calls>>
    /\ UNCHANGED <<blobVars, templateVars, twinVars>>

\* await this.redis.ping() resolves
PingReply ==
    /\ Answer(InitProc)
    /\ wire' = Tail(wire)
    /\ useRedis' = TRUE
    /\ handlers' = TRUE
    /\ UNCHANGED <<redisUrl, redis, conn, memoryCache, rstore, pc, loc, res,
                   fresh, now, calls>>
    /\ UNCHANGED <<blobVars, templateVars, initVars, twinVars>>

\* await this.redis.ping() rejects: the catch block
PingRejected ==
    /\ Sent(InitProc)
    /\ wire' = Without(InitProc)
    /\ useRedis' = FALSE
    /\ redis' = FALSE
    /\ UNCHANGED <<redisUrl, handlers, conn, memoryCache, rstore, pc, loc, res,
                   fresh, now, calls>>
    /\ UNCHANGED <<blobVars, templateVars, initVars, twinVars>>

\* The connection is (re-)established; the client emits 'connect'.
ConnUp ==
    /\ conn \in {"connecting", "down"}
    /\ conn' = "up"
    /\ useRedis' = IF handlers /\ ~useRedis THEN TRUE ELSE useRedis
    /\ UNCHANGED <<redisUrl, redis, handlers, memoryCache, rstore, wire, pc,
                   loc, res, fresh, now, calls>>
    /\ UNCHANGED <<blobVars, templateVars, initVars, twinVars>>

\* The connection is lost.
ConnDrop ==
    /\ conn = "up"
    /\ conn' = "down"
    /\ UNCHANGED <<redisUrl, redis, useRedis, handlers, memoryCache, rstore,
                   wire, pc, loc, res, fresh, now, calls>>
    /\ UNCHANGED <<blobVars, templateVars, initVars, twinVars>>

\* The client emits 'error'.
ErrorEvent ==
    /\ handlers
    /\ conn # "closed"
    /\ useRedis
    /\ useRedis' = FALSE
    /\ UNCHANGED <<redisUrl, redis, handlers, conn, memoryCache, rstore, wire,
                   pc, loc, res, fresh, now, calls>>
    /\ UNCHANGED <<blobVars, templateVars, initVars, twinVars>>

Tick ==
    /\ now < MaxTime
    /\ now' = now + 1
    /\ UNCHANGED <<redisUrl, redis, useRedis, handlers, conn, memoryCache,
                   rstore, wire, pc, loc, res, fresh, calls>>
    /\ UNCHANGED <<blobVars, templateVars, initVars, twinVars>>

\* Another client of the same Redis database stores text that is not JSON.
ForeignWrite(k) ==
    /\ redisUrl
    /\ rstore[k] # Garbage
    /\ rstore' = [rstore EXCEPT ![k] = Garbage]
    /\ fresh' = Stale(k)
    /\ UNCHANGED <<redisUrl, redis, useRedis, handlers, conn, memoryCache,
                   wire, pc, loc, res, now, calls>>
    /\ UNCHANGED <<blobVars, templateVars, initVars, twinVars>>

\* (a cleanup that empties the map)
CleanupAll ==
    /\ memoryCache' = [k \in Keys |-> NoEntry]
    /\ UNCHANGED <<redisUrl, redis, useRedis, handlers, conn, rstore, wire,
                   pc, loc, res, fresh, now, calls>>
    /\ UNCHANGED <<blobVars, templateVars, initVars>>
    /\ Twin(TwinCleanup)

\* cleanup(), run by the interval timer
Cleanup ==
    /\ memoryCache' = [k \in Keys |->
                         IF memoryCache[k] # NoEntry /\ memoryCache[k].expires < now
                         THEN NoEntry ELSE memoryCache[k]]
    /\ UNCHANGED <<redisUrl, redis, useRedis, handlers, conn, rstore, wire,
                   pc, loc, res, fresh, now, calls>>
    /\ UNCHANGED <<blobVars, templateVars, initVars>>
    /\ Twin(TwinCleanup)

-----------------------------------------------------------------------------
(* get                                                                     *)

\* getFromMemory(key): the value it returns, and the map it leaves
MemoryRet(k) ==
    IF memoryCache[k] = NoEntry THEN Null
    ELSE IF memoryCache[k].expires < now THEN Null
    ELSE memoryCache[k].data

\* (a getFromMemory that leaves an expired entry in the map)
MemoryAfterGetLazy(k) == memoryCache

MemoryAfterGet(k) ==
    IF memoryCache[k] # NoEntry /\ memoryCache[k].expires < now
    THEN [memoryCache EXCEPT ![k] = NoEntry]
    ELSE memoryCache

\* (a fall back that answers null without looking into the map)
GetFromMemoryForgetful(k, failed, w) ==
    /\ memoryCache' = memoryCache
    /\ res' = Done("get", k, Null, failed, "none", 0, WantAtReturn(k, w))

\* (an expiry test that never fires)
GetFromMemoryNoExpiry(k, failed, w) ==
    /\ memoryCache' = memoryCache
    /\ res' = IF memoryCache[k] = NoEntry
              THEN Done("get", k, Null, failed, "none", 0, WantAtReturn(k, w))
              ELSE Done("get", k, memoryCache[k].data, failed, "memory",
                        memoryCache[k].expires - now, WantAtReturn(k, w))

\* get returns this.getFromMemory(key)
GetFromMemory(k, failed, w) ==
    /\ memoryCache' = MemoryAfterGet(k)
    /\ res' = IF MemoryRet(k) = Null
              THEN Done("get", k, Null, failed, "none", 0, WantAtReturn(k, w))
              ELSE Done("get", k, MemoryRet(k), failed, "memory",
                        memoryCache[k].expires - now, WantAtReturn(k, w))

GetStart(p, k) ==
    /\ pc[p] = "idle"
    /\ calls < MaxCalls
    /\ calls' = calls + 1
    /\ IF Remote
       THEN /\ Send(p)
            /\ pc' = [pc EXCEPT ![p] = "get"]
            /\ loc' = [loc EXCEPT ![p] = [IdleLoc EXCEPT !.key = k,
                                                     !.want = WantAtStart(k)]]
            /\ UNCHANGED <<memoryCache, res>>
       ELSE /\ GetFromMemory(k, FALSE, WantAtStart(k))
            /\ UNCHANGED <<wire, pc, loc>>
    /\ UNCHANGED <<redisUrl, redis, useRedis, handlers, conn, rstore, fresh, now>>
    /\ UNCHANGED <<blobVars, templateVars, initVars>>
    /\ Twin(TwinGet(k))

\* The catch block of get.
GetCatch(p) ==
    /\ useRedis' = FALSE
    /\ GetFromMemory(loc[p].key, TRUE, loc[p].want)
    /\ pc' = [pc EXCEPT ![p] = "idle"]
    /\ loc' = [loc EXCEPT ![p] = IdleLoc]

\* await this.redis.get(key) resolves; the rest of the try block
GetReply(p) ==
    /\ pc[p] = "get"
    /\ Answer(p)
    /\ LET k == loc[p].key
           v == RedisGet(k)
           w == WantAtReturn(k, loc[p].want)
       IN CASE v.kind = "nil" ->
                 /\ wire' = Tail(wire)
                 /\ pc' = [pc EXCEPT ![p] = "idle"]
                 /\ loc' = [loc EXCEPT ![p] = IdleLoc]
                 /\ res' = Done("get", k, Null, FALSE, "none", 0, w)
                 /\ UNCHANGED <<useRedis, memoryCache>>
            [] v.kind = "garbage" ->
                 /\ wire' = Tail(wire)
                 /\ GetCatch(p)
            [] v.kind = "json" /\ v.expires < now /\ redis ->
                 /\ wire' = Append(Tail(wire), p)
                 /\ pc' = [pc EXCEPT ![p] = "getDel"]
                 /\ UNCHANGED <<loc, res, useRedis, memoryCache>>
            [] v.kind = "json" /\ v.expires < now /\ ~redis ->
                 /\ wire' = Tail(wire)
                 /\ GetCatch(p)
            [] v.kind = "json" /\ ~(v.expires < now) ->
                 /\ wire' = Tail(wire)
                 /\ pc' = [pc EXCEPT ![p] = "idle"]
                 /\ loc' = [loc EXCEPT ![p] = IdleLoc]
                 /\ res' = Done("get", k, v.data, FALSE, "redis",
                                v.expires - now, w)
                 /\ UNCHANGED <<useRedis, memoryCache>>
    /\ UNCHANGED <<redisUrl, redis, handlers, conn, rstore, fresh, now, calls>>
    /\ UNCHANGED <<blobVars, templateVars, initVars, twinVars>>

\* (a catch block that rethrows instead of falling back)
GetRejectedRethrow(p) ==
    /\ pc[p] = "get"
    /\ Sent(p)
    /\ wire' = Without(p)
    /\ pc' = [pc EXCEPT ![p] = "idle"]
    /\ loc' = [loc EXCEPT ![p] = IdleLoc]
    /\ res' = [Done("get", loc[p].key, Null, TRUE, "none", 0, "nowant")
                 EXCEPT !.raised = TRUE]
    /\ UNCHANGED <<redisUrl, redis, useRedis, handlers, conn, rstore, fresh,
                   now, memoryCache, calls>>
    /\ UNCHANGED <<blobVars, templateVars, initVars, twinVars>>

\* await this.redis.get(key) rejects
GetRejected(p) ==
    /\ pc[p] = "get"
    /\ Sent(p)
    /\ wire' = Without(p)
    /\ GetCatch(p)
    /\ UNCHANGED <<redisUrl, redis, handlers, conn, rstore, fresh, now, calls>>
    /\ UNCHANGED <<blobVars, templateVars, initVars, twinVars>>

\* await this.redis.del(key) of an expired entry resolves
GetDelReply(p) ==
    /\ pc[p] = "getDel"
    /\ Answer(p)
    /\ wire' = Tail(wire)
    /\ rstore' = [rstore EXCEPT ![loc[p].key] = NoValue]
    /\ pc' = [pc EXCEPT ![p] = "idle"]
    /\ loc' = [loc EXCEPT ![p] = IdleLoc]
    /\ res' = Done("get", loc[p].key, Null, FALSE, "none", 0,
                   WantAtReturn(loc[p].key, loc[p].want))
    /\ UNCHANGED <<redisUrl, redis, useRedis, handlers, conn, memoryCache,
                   fresh, now, calls>>
    /\ UNCHANGED <<blobVars, templateVars, initVars, twinVars>>

\* await this.redis.del(key) rejects
GetDelRejected(p) ==
    /\ pc[p] = "getDel"
    /\ Sent(p)
    /\ wire' = Without(p)
    /\ GetCatch(p)
    /\ UNCHANGED <<redisUrl, redis, handlers, conn, rstore, fresh, now, calls>>
    /\ UNCHANGED <<blobVars, templateVars, initVars, twinVars>>

-----------------------------------------------------------------------------
(* set                                                                     *)

OtherWriteInFlight(p) == \E q \in Procs \ {p} : pc[q] \in Writes

\* The set of p has completed: it is the last word on its key unless another
\* write is under way.
Fresh(p, k, v, exp) ==
    IF OtherWriteInFlight(p) THEN NoFresh
    ELSE [valid |-> TRUE, key |-> k, val |-> v, exp |-> exp]

SetStart(p, k, v, ttl) ==
    /\ pc[p] = "idle"
    /\ calls < MaxCalls
    /\ calls' = calls + 1
    /\ LET expires == now + TtlOrDefault(ttl) IN
       IF Remote
       THEN /\ Send(p)
            /\ pc' = [pc EXCEPT ![p] = "set"]
            /\ loc' = [loc EXCEPT ![p] =
                         [key |-> k, data |-> v, expires |-> expires,
                          ttlSeconds |-> CeilSeconds(TtlOrDefault(ttl)),
                          ttl |-> ttl, want |-> "nowant"]]
            /\ fresh' = Stale(k)
            /\ UNCHANGED <<memoryCache, res>>
       ELSE /\ memoryCache' = [memoryCache EXCEPT ![k] = MakeEntry(v, expires)]
            /\ res' = Done("set", k, Null, FALSE, "memory", 0, "nowant")
            /\ fresh' = Fresh(p, k, v, expires)
            /\ UNCHANGED <<wire, pc, loc>>
    /\ UNCHANGED <<redisUrl, redis, useRedis, handlers, conn, rstore, now>>
    /\ UNCHANGED <<blobVars, templateVars, initVars>>
    /\ Twin(TwinSet(k, v, ttl))

\* await this.redis.setex(key, ttlSeconds, JSON.stringify(entry)) resolves
SetReply(p) ==
    /\ pc[p] = "set"
    /\ Answer(p)
    /\ wire' = Tail(wire)
    /\ rstore' = [rstore EXCEPT ![loc[p].key] =
                    Stringified(MakeEntry(loc[p].data, loc[p].expires),
                                loc[p].ttlSeconds, now)]
    /\ pc' = [pc EXCEPT ![p] = "idle"]
    /\ loc' = [loc EXCEPT ![p] = IdleLoc]
    /\ res' = Done("set", loc[p].key, Null, FALSE, "redis", 0, "nowant")
    /\ fresh' = Fresh(p, loc[p].key, loc[p].data, loc[p].expires)
    /\ UNCHANGED <<redisUrl, redis, useRedis, handlers, conn, memoryCache, now, calls>>
    /\ UNCHANGED <<blobVars, templateVars, initVars, twinVars>>

\* (a catch block that degrades and drops the entry)
SetRejectedLossy(p) ==
    /\ pc[p] = "set"
    /\ Sent(p)
    /\ wire' = Without(p)
    /\ useRedis' = FALSE
    /\ pc' = [pc EXCEPT ![p] = "idle"]
    /\ loc' = [loc EXCEPT ![p] = IdleLoc]
    /\ res' = Done("set", loc[p].key, Null, TRUE, "memory", 0, "nowant")
    /\ fresh' = Fresh(p, loc[p].key, loc[p].data, loc[p].expires)
    /\ UNCHANGED <<redisUrl, redis, handlers, conn, rstore, now, memoryCache, calls>>
    /\ UNCHANGED <<blobVars, templateVars, initVars, twinVars>>

\* await this.redis.setex(...) rejects: the catch block, then the memory map
SetRejected(p) ==
    /\ pc[p] = "set"
    /\ Sent(p)
    /\ wire' = Without(p)
    /\ useRedis' = FALSE
    /\ memoryCache' = [memoryCache EXCEPT ![loc[p].key] =
                         MakeEntry(loc[p].data, loc[p].expires)]
    /\ pc' = [pc EXCEPT ![p] = "idle"]
    /\ loc' = [loc EXCEPT ![p] = IdleLoc]
    /\ res' = Done("set", loc[p].key, Null, TRUE, "memory", 0, "nowant")
    /\ fresh' = Fresh(p, loc[p].key, loc[p].data, loc[p].expires)
    /\ UNCHANGED <<redisUrl, redis, handlers, conn, rstore, now, calls>>
    /\ UNCHANGED <<blobVars, templateVars, initVars, twinVars>>

-----------------------------------------------------------------------------
(* delete, clear, getStats, disconnect                                     *)

DeleteStart(p, k) ==
    /\ pc[p] = "idle"
    /\ calls < MaxCalls
    /\ calls' = calls + 1
    /\ fresh' = Stale(k)
    /\ IF Remote
       THEN /\ Send(p)
            /\ pc' = [pc EXCEPT ![p] = "delete"]
            /\ loc' = [loc EXCEPT ![p] = [IdleLoc EXCEPT !.key = k]]
            /\ UNCHANGED <<memoryCache, res>>
       ELSE /\ memoryCache' = [memoryCache EXCEPT ![k] = NoEntry]
            /\ res' = Done("delete", k, Null, FALSE, "memory", 0, "nowant")
            /\ UNCHANGED <<wire, pc, loc>>
    /\ UNCHANGED <<redisUrl, redis, useRedis, handlers, conn, rstore, now>>
    /\ UNCHANGED <<blobVars, templateVars, initVars>>
    /\ Twin(TwinDelete(k))

\* await this.redis.del(key) resolves
DeleteReply(p) ==
    /\ pc[p] = "delete"
    /\ Answer(p)
    /\ wire' = Tail(wire)
    /\ rstore' = [rstore EXCEPT ![loc[p].key] = NoValue]
    /\ pc' = [pc EXCEPT ![p] = "idle"]
    /\ loc' = [loc EXCEPT ![p] = IdleLoc]
    /\ res' = Done("delete", loc[p].key, Null, FALSE, "redis", 0, "nowant")
    /\ UNCHANGED <<redisUrl, redis, useRedis, handlers, conn, memoryCache,
                   fresh, now, calls>>
    /\ UNCHANGED <<blobVars, templateVars, initVars, twinVars>>

\* await this.redis.del(key) rejects: the catch block, then the memory map
DeleteRejected(p) ==
    /\ pc[p] = "delete"
    /\ Sent(p)
    /\ wire' = Without(p)
    /\ useRedis' = FALSE
    /\ memoryCache' = [memoryCache EXCEPT ![loc[p].key] = NoEntry]
    /\ pc' = [pc EXCEPT ![p] = "idle"]
    /\ loc' = [loc EXCEPT ![p] = IdleLoc]
    /\ res' = Done("delete", loc[p].key, Null, TRUE, "memory", 0, "nowant")
    /\ UNCHANGED <<redisUrl, redis, handlers, conn, rstore, fresh, now, calls>>
    /\ UNCHANGED <<blobVars, templateVars, initVars, twinVars>>

ClearStart(p) ==
    /\ pc[p] = "idle"
    /\ calls < MaxCalls
    /\ calls' = calls + 1
    /\ fresh' = Stale("")
    /\ IF Remote
       THEN /\ Send(p)
            /\ pc' = [pc EXCEPT ![p] = "clear"]
            /\ loc' = [loc EXCEPT ![p] = IdleLoc]
            /\ UNCHANGED <<memoryCache, res>>
       ELSE /\ memoryCache' = [k \in Keys |-> NoEntry]
            /\ res' = Done("clear", "", Null, FALSE, "memory", 0, "nowant")
            /\ UNCHANGED <<wire, pc, loc>>
    /\ UNCHANGED <<redisUrl, redis, useRedis, handlers, conn, rstore, now>>
    /\ UNCHANGED <<blobVars, templateVars, initVars>>
    /\ Twin(TwinClear)

\* await this.redis.flushdb() resolves
ClearReply(p) ==
    /\ pc[p] = "clear"
    /\ Answer(p)
    /\ wire' = Tail(wire)
    /\ rstore' = [k \in Keys |-> NoValue]
    /\ pc' = [pc EXCEPT ![p] = "idle"]
    /\ res' = Done("clear", "", Null, FALSE, "redis", 0, "nowant")
    /\ UNCHANGED <<redisUrl, redis, useRedis, handlers, conn, memoryCache,
                   loc, fresh, now, calls>>
    /\ UNCHANGED <<blobVars, templateVars, initVars, twinVars>>

\* await this.redis.flushdb() rejects: the catch block, then the memory map
ClearRejected(p) ==
    /\ pc[p] = "clear"
    /\ Sent(p)
    /\ wire' = Without(p)
    /\ useRedis' = FALSE
    /\ memoryCache' = [k \in Keys |-> NoEntry]
    /\ pc' = [pc EXCEPT ![p] = "idle"]
    /\ res' = Done("clear", "", Null, TRUE, "memory", 0, "nowant")
    /\ UNCHANGED <<redisUrl, redis, handlers, conn, rstore, loc, fresh, now, calls>>
    /\ UNCHANGED <<blobVars, templateVars, initVars, twinVars>>

\* (a getStats that takes a successful remote call as a reconnect)
StatsKeysReplyRecovering(p) ==
    /\ pc[p] = "statsKeys"
    /\ Answer(p)
    /\ wire' = Tail(wire)
    /\ useRedis' = TRUE
    /\ pc' = [pc EXCEPT ![p] = "idle"]
    /\ res' = Done("stats", "", "redis", FALSE, "redis", 0, "nowant")
    /\ UNCHANGED <<redisUrl, redis, handlers, conn, memoryCache, rstore,
                   loc, fresh, now, calls>>
    /\ UNCHANGED <<blobVars, templateVars, initVars, twinVars>>

StatsStart(p) ==
    /\ pc[p] = "idle"
    /\ calls < MaxCalls
    /\ calls' = calls + 1
    /\ IF Remote
       THEN /\ Send(p)
            /\ pc' = [pc EXCEPT ![p] = "statsInfo"]
            /\ UNCHANGED res
       ELSE /\ res' = Done("stats", "", "memory", FALSE, "memory", 0, "nowant")
            /\ UNCHANGED <<wire, pc>>
    /\ UNCHANGED <<redisUrl, redis, useRedis, handlers, conn, memoryCache,
                   rstore, loc, fresh, now>>
    /\ UNCHANGED <<blobVars, templateVars, initVars>>
    /\ Twin(TwinStats)

\* await this.redis.info('keyspace') resolves; this.redis.keys('*') is sent
\* (or throws, this.redis being null by now: the catch block only logs)
StatsInfoReply(p) ==
    /\ pc[p] = "statsInfo"
    /\ Answer(p)
    /\ IF redis
       THEN /\ wire' = Append(Tail(wire), p)
            /\ pc' = [pc EXCEPT ![p] = "statsKeys"]
            /\ UNCHANGED res
       ELSE /\ wire' = Tail(wire)
            /\ pc' = [pc EXCEPT ![p] = "idle"]
            /\ res' = Done("stats", "", "memory", TRUE, "memory", 0, "nowant")
    /\ UNCHANGED <<redisUrl, redis, useRedis, handlers, conn, memoryCache,
                   rstore, loc, fresh, now, calls>>
    /\ UNCHANGED <<blobVars, templateVars, initVars, twinVars>>

\* await this.redis.keys('*') resolves
StatsKeysReply(p) ==
    /\ pc[p] = "statsKeys"
    /\ Answer(p)
    /\ wire' = Tail(wire)
    /\ pc' = [pc EXCEPT ![p] = "idle"]
    /\ res' = Done("stats", "", "redis", FALSE, "redis", 0, "nowant")
    /\ UNCHANGED <<redisUrl, redis, useRedis, handlers, conn, memoryCache,
                   rstore, loc, fresh, now, calls>>
    /\ UNCHANGED <<blobVars, templateVars, initVars, twinVars>>

\* either call of getStats rejects: the catch block logs, memory statistics
StatsRejected(p) ==
    /\ pc[p] \in {"statsInfo", "statsKeys"}
    /\ Sent(p)
    /\ wire' = Without(p)
    /\ pc' = [pc EXCEPT ![p] = "idle"]
    /\ res' = Done("stats", "", "memory", TRUE, "memory", 0, "nowant")
    /\ UNCHANGED <<redisUrl, redis, useRedis, handlers, conn, memoryCache,
                   rstore, loc, fresh, now, calls>>
    /\ UNCHANGED <<blobVars, templateVars, initVars, twinVars>>

\* disconnect(), called by the SIGTERM and SIGINT handlers
DisconnectStart(p) ==
    /\ pc[p] = "idle"
    /\ calls < MaxCalls
    /\ calls' = calls + 1
    /\ IF redis
       THEN /\ Send(p)
            /\ pc' = [pc EXCEPT ![p] = "quit"]
            /\ UNCHANGED res
       ELSE /\ res' = Done("disconnect", "", Null, FALSE, "none", 0, "nowant")
            /\ UNCHANGED <<wire, pc>>
    /\ UNCHANGED <<redisUrl, redis, useRedis, handlers, conn, memoryCache,
                   rstore, loc, fresh, now>>
    /\ UNCHANGED <<blobVars, templateVars, initVars, twinVars>>

\* await this.redis.quit() resolves: the connection is closed for good
QuitReply(p) ==
    /\ pc[p] = "quit"
    /\ Answer(p)
    /\ wire' = Tail(wire)
    /\ conn' = "closed"
    /\ redis' = FALSE
    /\ useRedis' = FALSE
    /\ pc' = [pc EXCEPT ![p] = "idle"]
    /\ res' = Done("disconnect", "", Null, FALSE, "none", 0, "nowant")
    /\ UNCHANGED <<redisUrl, handlers, memoryCache, rstore, loc, fresh, now, calls>>
    /\ UNCHANGED <<blobVars, templateVars, initVars, twinVars>>

\* await this.redis.quit() rejects: disconnect rejects
QuitRejected(p) ==
    /\ pc[p] = "quit"
    /\ Sent(p)
    /\ wire' = Without(p)
    /\ pc' = [pc EXCEPT ![p] = "idle"]
    /\ res' = [Done("disconnect", "", Null, TRUE, "none", 0, "nowant")
                 EXCEPT !.raised = TRUE]
    /\ UNCHANGED <<redisUrl, redis, useRedis, handlers, conn, memoryCache,
                   rstore, loc, fresh, now, calls>>
    /\ UNCHANGED <<blobVars, templateVars, initVars, twinVars>>

-----------------------------------------------------------------------------
(* The case-template routes and the in-memory cache they use               *)
(*                                                                         *)
(* A handler suspends at its database call; the calls of the in-memory     *)
(* cache run to completion when they are made.  The templates table is     *)
(* modelled by the number of writes applied to it, so that a list read     *)
(* before a write differs from one read after it.                          *)

\* The number of successful mutations of a run.
MaxMutations == 2

\* 5 * 60 * 1000 ms, the ttl the routes pass to cache.set, and the default
\* ttl of MemoryCache: one unit of the clock.
TemplateTTL      == 1
MemoryDefaultTTL == 1

KeyAll  == "templates:all"
KeyPage == "templates:paginated:25:0"
KeyId   == "templates:t1"
NoKey   == "null"

TemplateKeys == {KeyAll, KeyPage, KeyId}

\* GET / with no query, with limit or offset, and with a search term.
Queries == {"all", "page", "search"}

\* cacheKey of the request: search results are not cached.
CacheKeyOf(q) ==
    CASE q = "all" -> KeyAll
      [] q = "page" -> KeyPage
      [] OTHER -> NoKey

\* An entry of the map: data, the list as read from the table; expires;
\* stamp (history), the number of table writes applied when it was set.
NoCached == [full |-> FALSE, data |-> 0, expires |-> 0, stamp |-> 0]

\* MemoryCache.get returns the data of the entry (a list or a page object,
\* truthy in the routes' `if (cached)`), not null.
CacheHit(k) == entries[k].full /\ ~(entries[k].expires < now)

\* The map after MemoryCache.get(k): an expired entry is removed.
EntriesAfterGet(k) ==
    IF entries[k].full /\ entries[k].expires < now
    THEN [entries EXCEPT ![k] = NoCached]
    ELSE entries

\* The map after MemoryCache.set(k, data, ttl).
CacheSet(k, data, ttl) ==
    [entries EXCEPT ![k] =
        [full |-> TRUE, data |-> data,
         expires |-> now + (IF ttl # 0 THEN ttl ELSE MemoryDefaultTTL),
         stamp |-> templates]]

\* The map es after MemoryCache.delete(k).
CacheDelete(es, k) == [es EXCEPT ![k] = NoCached]

\* MemoryCache.cleanup, run every 5 minutes: expired entries are removed.
MemoryCleanup ==
    /\ entries' = [k \in TemplateKeys |->
                      IF entries[k].full /\ entries[k].expires < now
                      THEN NoCached ELSE entries[k]]
    /\ UNCHANGED <<templates, listReq, mutReq, completed, reply>>
    /\ UNCHANGED <<blobVars, cacheVars>>

IdleList == [pc |-> "idle", q |-> "none", g |-> 0, data |-> 0]
IdleMut  == [pc |-> "idle", route |-> "none", status |-> 0]
NoReply  == [src |-> "none", q |-> "none", data |-> 0, stamp |-> 0, g |-> 0]

\* GET / up to its database call: cache.get, and the reply on a hit.  g
\* (history) is the number of mutations answered when the request arrived.
GetTemplatesStart(q) ==
    /\ listReq.pc = "idle"
    /\ LET k == CacheKeyOf(q) IN
       IF k # NoKey /\ CacheHit(k)
       THEN /\ reply' = [src |-> "cache", q |-> q, data |-> entries[k].data,
                         stamp |-> entries[k].stamp, g |-> completed]
            /\ UNCHANGED <<entries, listReq>>
       ELSE /\ entries' = IF k # NoKey THEN EntriesAfterGet(k) ELSE entries
            /\ listReq' = [pc |-> "query", q |-> q, g |-> completed, data |-> 0]
            /\ reply' = reply
    /\ UNCHANGED <<templates, mutReq, completed>>
    /\ UNCHANGED <<blobVars, cacheVars>>

\* The database runs getTemplates or getTemplatesPaginated, or fails (500).
GetTemplatesQuery ==
    /\ listReq.pc = "query"
    /\ \/ /\ listReq' = [listReq EXCEPT !.pc = "store", !.data = templates]
          /\ reply' = reply
       \/ /\ listReq' = IdleList
          /\ reply' = [src |-> "error", q |-> listReq.q, data |-> 0,
                       stamp |-> 0, g |-> listReq.g]
    /\ UNCHANGED <<templates, entries, mutReq, completed>>
    /\ UNCHANGED <<blobVars, cacheVars>>

\* GET / after its database call: cache.set for 5 minutes, and the reply.
GetTemplatesStore ==
    /\ listReq.pc = "store"
    /\ LET k == CacheKeyOf(listReq.q) IN
       entries' = IF k # NoKey THEN CacheSet(k, listReq.data, TemplateTTL)
                  ELSE entries
    /\ reply' = [src |-> "db", q |-> listReq.q, data |-> listReq.data,
                 stamp |-> templates, g |-> listReq.g]
    /\ listReq' = IdleList
    /\ UNCHANGED <<templates, mutReq, completed>>
    /\ UNCHANGED <<blobVars, cacheVars>>

\* A mutation up to the return of its database call: refused with status
\* (validation, not found, database error), or the write is applied.
Mutation(route, ok, refusals) ==
    /\ mutReq.pc = "idle"
    /\ \/ /\ templates < MaxMutations
          /\ templates' = templates + 1
          /\ mutReq' = [pc |-> "invalidate", route |-> route, status |-> ok]
       \/ \E status \in refusals :
             /\ mutReq' = [pc |-> "idle", route |-> route, status |-> status]
             /\ templates' = templates
    /\ UNCHANGED <<entries, listReq, completed, reply>>
    /\ UNCHANGED <<blobVars, cacheVars>>

\* POST / : validation, insertTemplate.
PostTemplate == Mutation("post", 201, {400, 500})

\* PUT /:id : updateTemplate.
PutTemplate == Mutation("put", 200, {404, 500})

\* DELETE /:id : deleteTemplate.
DeleteTemplate == Mutation("delete", 200, {404, 500})

\* "Invalidate templates cache": cache.delete('templates:all') and, in PUT
\* and DELETE, cache.delete(`templates:${id}`); then the reply.
Invalidate ==
    /\ mutReq.pc = "invalidate"
    /\ entries' = IF mutReq.route = "post"
                  THEN CacheDelete(entries, KeyAll)
                  ELSE CacheDelete(CacheDelete(entries, KeyAll), KeyId)
    /\ completed' = completed + 1
    /\ mutReq' = [mutReq EXCEPT !.pc = "idle"]
    /\ UNCHANGED <<templates, listReq, reply>>
    /\ UNCHANGED <<blobVars, cacheVars>>

-----------------------------------------------------------------------------
(* The blob store with its file serving                                    *)

\* The cache facade at rest, with no Redis configured.
CacheAtRest ==
    /\ redisUrl = FALSE
    /\ redis = FALSE
    /\ useRedis = FALSE
    /\ handlers = FALSE
    /\ conn = "none"
    /\ memoryCache = [k \in Keys |-> NoEntry]
    /\ rstore = [k \in Keys |-> NoValue]
    /\ wire = <<>>
    /\ pc = [p \in Procs |-> "idle"]
    /\ loc = [p \in Procs |-> IdleLoc]
    /\ res = NoResult
    /\ fresh = NoFresh
    /\ now = 0
    /\ calls = 0
    /\ mirror = [k \in Keys |-> NoEntry]
    /\ mres = NoTwinResult
    /\ connectionAttempted = TRUE
    /\ clients = 0

\* The template routes at rest, with an empty cache.
TemplatesAtRest ==
    /\ templates = 0
    /\ entries = [k \in TemplateKeys |-> NoCached]
    /\ listReq = IdleList
    /\ mutReq = IdleMut
    /\ completed = 0
    /\ reply = NoReply

Init ==
    /\ env \in Envs
    /\ s3Client = InitS3Client(env)
    /\ bucket = [k \in BucketKeys |-> None]
    /\ disk = [f \in FileNames |-> None]
    /\ uploadsDir \in BOOLEAN
    /\ last = NoCall
    /\ px = Idle
    /\ stored = [f \in FileNames |-> None]
    /\ gone = [f \in FileNames |-> NeverStored]
    /\ CacheAtRest
    /\ TemplatesAtRest

Next ==
    \/ \E f \in FileNames, P \in Payloads : UploadFile(f, P)
    \/ \E u \in Addresses \cup {EmptyStr} : DeleteFile(u)
    \/ \E u \in Addresses \cup {EmptyStr} : FileExists(u)
    \/ \E u \in Addresses \cup {EmptyStr} : GetFileUrl(u)
    \/ \E f \in FileNames \cup {EmptyStr} : ProxyStart(f)
    \/ ProxyExists
    \/ ProxySign
    \/ ProxyFetch
    \/ \E f \in FileNames : StaticServe(f)

Spec == Init /\ [][Next]_vars

-----------------------------------------------------------------------------
(* The cache facade                                                        *)

\* The blob store at rest, with no bucket configured.
BlobAtRest ==
    /\ env = [endpoint |-> "", bucketName |-> "", accessKey |-> "",
              secretKey |-> ""]
    /\ s3Client = FALSE
    /\ bucket = [k \in BucketKeys |-> None]
    /\ disk = [f \in FileNames |-> None]
    /\ uploadsDir = FALSE
    /\ last = NoCall
    /\ px = Idle
    /\ stored = [f \in FileNames |-> None]
    /\ gone = [f \in FileNames |-> NeverStored]

\* The state the constructor leaves: initRedis has run up to its await of
\* ping (REDIS_URL set), or has returned (REDIS_URL not set).
CacheInit ==
    /\ redisUrl \in BOOLEAN
    /\ redis = redisUrl
    /\ useRedis = FALSE
    /\ handlers = FALSE
    /\ conn = IF redisUrl THEN "connecting" ELSE "none"
    /\ memoryCache = [k \in Keys |-> NoEntry]
    /\ rstore = [k \in Keys |-> NoValue]
    /\ wire = IF redisUrl THEN <<InitProc>> ELSE <<>>
    /\ pc = [p \in Procs |-> "idle"]
    /\ loc = [p \in Procs |-> IdleLoc]
    /\ res = NoResult
    /\ fresh = NoFresh
    /\ now = 0
    /\ calls = 0
    /\ mirror = [k \in Keys |-> NoEntry]
    /\ mres = NoTwinResult
    /\ connectionAttempted = TRUE
    /\ clients = IF redisUrl THEN 1 ELSE 0
    /\ BlobAtRest
    /\ TemplatesAtRest

CacheNext ==
    \/ InitRedis
    \/ PingReply
    \/ PingRejected
    \/ ConnUp
    \/ ConnDrop
    \/ ErrorEvent
    \/ Tick
    \/ Cleanup
    \/ \E k \in Keys : ForeignWrite(k)
    \/ \E p \in Procs, k \in Keys : GetStart(p, k)
    \/ \E p \in Procs : GetReply(p)
    \/ \E p \in Procs : GetRejected(p)
    \/ \E p \in Procs : GetDelReply(p)
    \/ \E p \in Procs : GetDelRejected(p)
    \/ \E p \in Procs, k \in Keys, v \in Vals, ttl \in TtlArgs : SetStart(p, k, v, ttl)
    \/ \E p \in Procs : SetReply(p)
    \/ \E p \in Procs : SetRejected(p)
    \/ \E p \in Procs, k \in Keys : DeleteStart(p, k)
    \/ \E p \in Procs : DeleteReply(p)
    \/ \E p \in Procs : DeleteRejected(p)
    \/ \E p \in Procs : ClearStart(p)
    \/ \E p \in Procs : ClearReply(p)
    \/ \E p \in Procs : ClearRejected(p)
    \/ \E p \in Procs : StatsStart(p)
    \/ \E p \in Procs : StatsInfoReply(p)
    \/ \E p \in Procs : StatsKeysReply(p)
    \/ \E p \in Procs : StatsRejected(p)
    \/ \E p \in Procs : DisconnectStart(p)
    \/ \E p \in Procs : QuitReply(p)
    \/ \E p \in Procs : QuitRejected(p)

CacheSpec == CacheInit /\ [][CacheNext]_vars

\* setInterval(() => cache.cleanup(), 5 * 60 * 1000) is registered when the
\* module is loaded and never cleared: the sweep keeps coming.
CacheFairSpec == CacheSpec /\ WF_vars(Cleanup)

-----------------------------------------------------------------------------
(* get and set on a lapsed entry                                           *)

\* The facade remote-active, some time after a set("k1", "v1", 1) made at
\* time 0 has completed: the entry's lifetime is over and Redis still holds
\* the key, which it keeps for whole seconds.  calls counts from here.
LapsedInit ==
    /\ redisUrl = TRUE
    /\ redis = TRUE
    /\ useRedis = TRUE
    /\ handlers = TRUE
    /\ conn = "up"
    /\ memoryCache = [k \in Keys |-> NoEntry]
    /\ rstore = [k \in Keys |->
                    Stringified(MakeEntry("v1", 1), CeilSeconds(1), 0)]
    /\ wire = <<>>
    /\ pc = [p \in Procs |-> "idle"]
    /\ loc = [p \in Procs |-> IdleLoc]
    /\ res = NoResult
    /\ fresh = NoFresh
    /\ now = 2
    /\ calls = 0
    /\ mirror = [k \in Keys |-> NoEntry]
    /\ mres = NoTwinResult
    /\ connectionAttempted = TRUE
    /\ clients = 1
    /\ BlobAtRest
    /\ TemplatesAtRest

LapsedNext ==
    \/ \E p \in Procs, k \in Keys : GetStart(p, k)
    \/ \E p \in Procs : GetReply(p)
    \/ \E p \in Procs : GetRejected(p)
    \/ \E p \in Procs : GetDelReply(p)
    \/ \E p \in Procs : GetDelRejected(p)
    \/ \E p \in Procs, k \in Keys, v \in Vals, ttl \in TtlArgs : SetStart(p, k, v, ttl)
    \/ \E p \in Procs : SetReply(p)
    \/ \E p \in Procs : SetRejected(p)

LapsedSpec == LapsedInit /\ [][LapsedNext]_vars

-----------------------------------------------------------------------------
(* The facade after a set made in memory mode                              *)

\* REDIS_URL is set, the client is connected and the ping of initRedis is
\* still unanswered; set("k1", "v1") has been called at time 0 and, useRedis
\* being false, has stored its entry in the memory map.  calls counts from
\* here.
AfterSetInit ==
    /\ redisUrl = TRUE
    /\ redis = TRUE
    /\ useRedis = FALSE
    /\ handlers = FALSE
    /\ conn = "up"
    /\ memoryCache = [k \in Keys |-> MakeEntry("v1", DefaultTTL)]
    /\ rstore = [k \in Keys |-> NoValue]
    /\ wire = <<InitProc>>
    /\ pc = [p \in Procs |-> "idle"]
    /\ loc = [p \in Procs |-> IdleLoc]
    /\ res = Done("set", "k1", Null, FALSE, "memory", 0, "nowant")
    /\ fresh = [valid |-> TRUE, key |-> "k1", val |-> "v1", exp |-> DefaultTTL]
    /\ now = 0
    /\ calls = 0
    /\ mirror = [k \in Keys |-> NoEntry]
    /\ mres = NoTwinResult
    /\ connectionAttempted = TRUE
    /\ clients = 1
    /\ BlobAtRest
    /\ TemplatesAtRest

AfterSetSpec == AfterSetInit /\ [][CacheNext]_vars

-----------------------------------------------------------------------------
(* The case-template routes                                                *)

TemplateInit ==
    /\ TemplatesAtRest
    /\ BlobAtRest
    /\ CacheAtRest

TemplateNext ==
    \/ \E q \in Queries : GetTemplatesStart(q)
    \/ GetTemplatesQuery
    \/ GetTemplatesStore
    \/ PostTemplate
    \/ PutTemplate
    \/ DeleteTemplate
    \/ Invalidate
    \/ MemoryCleanup
    \/ Tick

TemplateSpec == TemplateInit /\ [][TemplateNext]_vars

-----------------------------------------------------------------------------
(* Claims about the blob store                                             *)

AccessDeniedClass(e) == e.Code = "AccessDenied" \/ e.name = "AccessDenied"

\* C1: when the remote put of uploadFile fails with an error whose code or
\* name is AccessDenied, whatever its message, uploadFile raises: nothing is
\* written locally and no ref is returned.
C1_AccessDeniedIsFatal ==
    (last.op = "upload" /\ last.err # NoError /\ AccessDeniedClass(last.err))
        => (last.raised /\ ~last.local /\ last.ret = <<>>)

\* C2: when the remote put of uploadFile fails with an error that is not in
\* the access-denied class, with or without a message, nothing is raised:
\* the bytes are in the local uploads directory and the ref is returned.
C2_OtherErrorsFallBack ==
    (last.op = "upload" /\ last.err # NoError /\ ~AccessDeniedClass(last.err))
        => /\ ~last.raised
           /\ last.ret = Ref(last.arg)
           /\ disk[last.arg] # None
           /\ disk[last.arg] = stored[last.arg]

\* C3: round trip.  A request for a file whose upload has returned, served
\* with no remote fault of its own and with no storage call on the file since
\* the request arrived, is answered 200 with the uploaded bytes: whatever the
\* outcome of the upload's remote put was.
C3_RoundTrip ==
    (px.pc = "done" /\ px.clean /\ Lookup(stored, px.file) # None)
        => (px.status = 200 /\ px.body = stored[px.file])

IsRefOfFile(u) == StartsWithUploadsSlash(u) /\ SubSeq(u, 3, Len(u)) \in FileNames

FileOfRef(u) == SubSeq(u, 3, Len(u))

-----------------------------------------------------------------------------
(* Properties of the cache facade                                          *)

DataOps == {"get", "set", "delete", "clear"}

\* The step completes the suspended call of p.
Returns(p) == pc[p] # "idle" /\ pc'[p] = "idle"

\* The step is a call that ran to completion without a remote call.
RunsInMemory == calls' # calls /\ pc' = pc

\* The step starts a call other than disconnect.
StartsCall == calls' # calls /\ \A p \in Procs : pc'[p] # "quit"

\* The client's 'connect' signal.
ConnectSignal == conn # "up" /\ conn' = "up"

\* Degraded: Redis had been in use (the handlers are installed) and is not.
Degraded == handlers /\ ~useRedis

C4_Step ==
    /\ \A p \in Procs :
         (pc[p] \in {"get", "getDel"} /\ Returns(p) /\ res'.failed)
             => /\ res'.op = "get"
                /\ ~res'.raised
                /\ ~useRedis'
                /\ res'.ret = MemoryRet(loc[p].key)
    /\ (StartsCall /\ ~useRedis)
             => /\ RunsInMemory
                /\ wire' = wire
                /\ rstore' = rstore

\* C4: a get whose remote call fails does not raise, returns what the memory
\* map holds for the key (null if nothing unexpired), and leaves the facade
\* degraded (useRedis = false); a get, set, delete, clear or getStats started
\* while useRedis is false sends no command and touches only the memory map.
C4_DegradeAndContinue == [][C4_Step]_vars

\* A get failed remotely and answered from the memory map.
C4_Witness ==
    /\ res.op = "get" /\ res.failed /\ ~res.raised
    /\ res.src = "memory" /\ res.ret \in Vals
    /\ ~useRedis /\ redis

\* C5: once degraded, useRedis changes from false to true only in a step in
\* which the client signals 'connect'; no step of get, set, delete, clear or
\* getStats does it.
C5_RecoveryOnlyOnConnect ==
    [][(Degraded /\ useRedis') => ConnectSignal]_vars

\* A data call failed and degraded the facade, and a reconnect has made it
\* remote-active again.
C5_Witness ==
    /\ res.op \in DataOps /\ res.failed
    /\ handlers /\ useRedis /\ conn = "up"

\* The expiry time set(k, v, ttl) computes at time t.
ExpiresAt(t, ttl) ==
    IF ttl.given /\ ttl.ms > 0 THEN t + ttl.ms ELSE t + DefaultTTL

C6_Step ==
    /\ \A p \in Procs :
         (pc[p] = "idle" /\ pc'[p] = "set")
             => loc'[p].expires = ExpiresAt(now, loc'[p].ttl)
    /\ \A p \in Procs :
         (pc[p] = "set" /\ Returns(p) /\ res'.failed)
             => /\ ~res'.raised
                /\ ~useRedis'
                /\ memoryCache'[loc[p].key] =
                       [data |-> loc[p].data, expires |-> loc[p].expires]
    /\ \A k \in Keys :
         (RunsInMemory /\ res'.op = "get" /\ res'.key = k /\ ~useRedis
            /\ memoryCache[k] # NoEntry /\ now < memoryCache[k].expires)
             => res'.ret = memoryCache[k].data

\* C6: when the remote write of set(k, v, ttl) fails, the call leaves the
\* facade degraded and the memory map holding {v, t + ttl} for k, t being the
\* time the call started (ttl omitted or 0: the default ttl); a get(k) made
\* while degraded and before that time returns the value the map holds.
C6_SetNotLost == [][C6_Step]_vars

\* A set failed remotely and its entry is in the memory map.
C6_Witness ==
    /\ res.op = "set" /\ res.failed /\ ~useRedis
    /\ memoryCache[res.key] # NoEntry
    /\ memoryCache[res.key].expires = now + 1

\* C7: a get(k) that follows a completed set(k, v, ttl), with no other write
\* of k in between, returns v before the entry's expiry time and null after
\* it, in every backend mode.
C7_SetThenGet ==
    (res.op = "get" /\ res.want # "nowant") => res.ret = res.want

\* C8 as stated: get never returns the data of an entry whose expiry time is
\* less than or equal to the current time.
C8_ExpiredAtBoundary ==
    (res.op = "get" /\ res.src \in {"memory", "redis"}) => res.left > 0

\* The step is a run of the periodic sweep that removes something.
Sweeps == memoryCache' # memoryCache /\ calls' = calls /\ pc' = pc

C8_Step ==
    /\ (res'.op = "get" /\ res'.src \in {"memory", "redis"}) => res'.left >= 0
    /\ Sweeps => \A k \in Keys :
         memoryCache'[k] =
             IF memoryCache[k] # NoEntry /\ memoryCache[k].expires < now
             THEN NoEntry ELSE memoryCache[k]

\* C8 amended: an entry is expired only when now > expiresAt; get never
\* returns the data of an entry whose expiry time is less than the current
\* time, in the memory path and in the remote path, and the sweep removes
\* exactly the entries whose expiry time is less than the current time.
C8_ExpiredPastBoundary == [][C8_Step]_vars

\* A get returned the data of an entry at the moment of its expiry time.
C8_Witness ==
    res.op = "get" /\ res.src \in {"memory", "redis"} /\ res.left = 0

C10_Step ==
    /\ res'.op \in DataOps => ~res'.raised
    /\ \A p \in Procs :
         (pc[p] \in {"get", "getDel", "set", "delete", "clear"}
            /\ Returns(p) /\ res'.failed)
             => /\ ~useRedis'
                /\ pc[p] \in {"get", "getDel"}
                     => res'.ret = MemoryRet(loc[p].key)
                /\ pc[p] = "set"
                     => memoryCache'[loc[p].key] =
                            MakeEntry(loc[p].data, loc[p].expires)
                /\ pc[p] = "delete" => memoryCache'[loc[p].key] = NoEntry
                /\ pc[p] = "clear" => \A k \in Keys : memoryCache'[k] = NoEntry

\* C10: get, set, delete and clear never raise; a failure of a remote call
\* made inside them (a rejected command, a stored text that is not JSON, the
\* client gone after disconnect) leaves the facade degraded and the call
\* completes against the memory map.
C10_NeverRaises == [][C10_Step]_vars

\* A get that was suspended while disconnect closed the connection failed
\* and completed without raising.
C10_Witness ==
    /\ res.op = "get" /\ res.failed /\ ~res.raised
    /\ conn = "closed" /\ ~redis /\ ~useRedis

-----------------------------------------------------------------------------
(* Properties of the /uploads proxy                                        *)

\* C12: every 404 the /uploads proxy gives carries the fields error,
\* filename and requestedUrl, also when the file is deleted between the
\* proxy's existence check and its fetch of the signed URL.
C12_Proxy404Shape ==
    (IsUsingBucketStorage /\ px.pc = "done" /\ px.status = 404)
        => {"error", "filename", "requestedUrl"} \subseteq px.fields

\* C13: the proxy answers every request exactly once, whatever happens: a
\* null access URL gives 500 with the fields error, filename and message; a
\* fetch that is not ok gives 404; an exception met at fileExists, at
\* getFileUrl, at the fetch or while reading its body gives 500 with the
\* fields error and details.
C13_ProxyAnswersOnce ==
    /\ px.sent = (IF px.pc = "done" THEN 1 ELSE 0)
    /\ (px.pc = "done" /\ px.why = "nullUrl")
          => (px.status = 500 /\ px.fields = {"error", "filename", "message"})
    /\ (px.pc = "done" /\ px.why = "fetchNotOk") => px.status = 404
    /\ (px.pc = "done" /\ px.why = "exception")
          => (px.status = 500 /\ px.fields = {"error", "details"})
    /\ px.pc = "done" => px.status \in {200, 400, 404, 500}

\* A request whose fetch of the signed URL threw has been answered.
C13_Witness ==
    /\ px.pc = "done" /\ px.why = "exception" /\ px.url.signed
    /\ px.status = 500 /\ px.sent = 1

-----------------------------------------------------------------------------
(* Properties of the blob store's calls                                    *)

\* The three address forms of a file name F.
FormsOf(F) ==
    {<<"https:", "", "host", "bkt", "uploads", F>>, <<"", "uploads", F>>, <<F>>}

EncodedNames == {"a.pdf", "a%20b.pdf"}

\* C14: for every file name F the absolute URL, the root-relative ref and
\* the bare name resolve to the key uploads/<F percent-decoded>, in
\* getFileUrl (the key that is signed) and in fileExists (the key probed).
C14_KeyResolution ==
    \A F \in EncodedNames :
        (last.arg \in FormsOf(F) /\ last.remote /\ last.err = NoError)
            => /\ last.op = "getFileUrl"
                    => last.ret = Signed(<<"uploads", DecodeURIComponent(F)>>)
               /\ last.op = "exists"
                    => last.ret = (Lookup(bucket, <<"uploads", DecodeURIComponent(F)>>) # None)


\* The text n occurs in the text h.
Contains(h, n) ==
    /\ n # <<>>
    /\ \E i \in 1..(Len(h) - Len(n) + 1) : SubSeq(h, i, i + Len(n) - 1) = n

\* C15: the error uploadFile raises on access-denied contains the bucket
\* name and the endpoint, does not contain the complete access key (only a
\* masked prefix of it), and does not contain the secret key.
C15_RedactedDiagnostic ==
    (last.op = "upload" /\ last.raised /\ last.msg # NoMsg)
        => /\ Contains(last.msg.bucketName, EnvText("bucketName", env.bucketName))
           /\ Contains(last.msg.endpoint, EnvText("endpoint", env.endpoint))
           /\ ~Contains(last.msg.accessKeyPreview,
                        EnvText("accessKey", env.accessKey))
           /\ \A part \in {"bucketName", "endpoint", "accessKeyPreview"} :
                ~Contains(last.msg[part], EnvText("secretKey", env.secretKey))


\* One of the four variables of the bucket configuration is empty.
AnyEmpty(e) ==
    e.endpoint = "" \/ e.bucketName = "" \/ e.accessKey = "" \/ e.secretKey = ""

\* The step is a call of uploadFile.
UploadStep == last'.op = "upload" /\ (last' # last \/ stored' # stored)

C16_Step ==
    (UploadStep /\ AnyEmpty(env))
        => /\ ~last'.remote /\ last'.local /\ ~last'.raised
           /\ bucket' = bucket
           /\ uploadsDir'
           /\ last'.mkdir = ~uploadsDir
           /\ disk'[last'.arg] \in Payloads
           /\ disk'[last'.arg] = stored'[last'.arg]
           /\ \A g \in FileNames \ {last'.arg} : disk'[g] = disk[g]
           /\ last'.ret = Ref(last'.arg)

\* C16: when the endpoint, the bucket name, the access key or the secret key
\* is empty, uploadFile makes no remote call, creates the uploads directory
\* if it is missing, writes the bytes there and returns /uploads/<fileName>.
C16_FallbackOnMisconfiguration == [][C16_Step]_vars

\* An upload under an incomplete configuration created the directory and
\* wrote the file.
C16_Witness ==
    /\ last.op = "upload" /\ AnyEmpty(env) /\ env.endpoint # ""
    /\ last.mkdir /\ uploadsDir
    /\ last.ret = Ref(last.arg) /\ disk[last.arg] \in Payloads


\* The step is a storage call.
StorageStep == last' # last \/ stored' # stored

\* The call recorded in r needs a backend: every uploadFile, a deleteFile of
\* a ref under /uploads/, a fileExists or getFileUrl of a non-empty address.
NeedsBackend(r) ==
    \/ r.op = "upload"
    \/ r.op = "delete" /\ StartsWithUploadsSlash(r.arg)
    \/ r.op \in {"exists", "getFileUrl"} /\ r.arg # EmptyStr

C17_Step ==
    /\ env' = env
    /\ s3Client' = s3Client
    /\ (StorageStep /\ NeedsBackend(last'))
          => last'.remote = (s3Client /\ ~AnyEmpty(env))

\* C17: no storage call changes the client or the configuration, and every
\* call that needs a backend goes to the remote store first exactly when the
\* client exists and the configuration is complete, whatever the outcome of
\* the calls before it: a failed remote request leaves nothing behind that a
\* later call consults.
C17_NotSticky == [][C17_Step]_vars

\* An upload fell back to the local disk after a failed put, and a later
\* upload went to the bucket and succeeded.
C17_Witness ==
    /\ \E f \in FileNames : disk[f] # None /\ bucket[KeyOf(f)] # None
    /\ s3Client /\ ~AnyEmpty(env)
    /\ last.op = "upload" /\ last.remote /\ ~last.local /\ last.err = NoError


\* C18: fileExists does not throw and returns a boolean: false for the empty
\* address; in local mode, whether the file is on disk; in remote mode, true
\* exactly when the metadata probe succeeds (the object is there and the
\* request does not fail), false when the probe reports not-found and false
\* when it fails in any other way.
C18_FileExistsTotal ==
    last.op = "exists"
        => /\ ~last.raised
           /\ last.ret \in BOOLEAN
           /\ last.arg = EmptyStr
                => (last.ret = FALSE /\ ~last.remote /\ ~last.local)
           /\ (last.arg # EmptyStr /\ ~UseBucket)
                => /\ ~last.remote
                   /\ last.ret = (Lookup(disk, ResolveFileName(last.arg)) # None)
           /\ (last.arg # EmptyStr /\ UseBucket)
                => /\ last.remote
                   /\ last.err # NoError => last.ret = FALSE
                   /\ last.err = NoError
                        => last.ret =
                             (Lookup(bucket, ResolveBucketKey(last.arg)) # None)

\* The probe of an object that is in the bucket failed, and fileExists
\* answered false.
C18_Witness ==
    /\ last.op = "exists" /\ last.remote /\ last.err # NoError
    /\ Lookup(bucket, ResolveBucketKey(last.arg)) # None
    /\ last.ret = FALSE


\* C19: getFileUrl does not throw; for the empty address it returns null
\* without a remote request; in local mode it returns, for every other
\* address, the root-relative path of the resolved key, /uploads/<filename>;
\* in remote mode it returns a signed URL for the resolved key, or null when
\* signing fails.
C19_GetFileUrlTotal ==
    last.op = "getFileUrl"
        => /\ ~last.raised
           /\ last.arg = EmptyStr => (last.ret = NullUrl /\ ~last.remote)
           /\ (last.arg # EmptyStr /\ ~UseBucket)
                => /\ ~last.remote
                   /\ last.ret = PathUrl(<<"">> \o ResolveBucketKey(last.arg))
           /\ (last.arg # EmptyStr /\ UseBucket)
                => /\ last.remote
                   /\ last.err # NoError => last.ret = NullUrl
                   /\ last.err = NoError
                        => last.ret = Signed(ResolveBucketKey(last.arg))


\* The reference is empty or does not start with /uploads/.
InvalidRef(u) == u = EmptyStr \/ ~StartsWithUploadsSlash(u)

C20_Step ==
    (last' # last /\ last'.op = "delete" /\ InvalidRef(last'.arg))
        => /\ ~last'.raised
           /\ ~last'.remote /\ ~last'.local
           /\ bucket' = bucket
           /\ disk' = disk

\* C20: for a reference that is empty or does not start with /uploads/,
\* deleteFile returns without error, sends no remote delete and removes no
\* local file.
C20_InvalidRefUntouched == [][C20_Step]_vars

\* deleteFile was given the absolute URL of an object that is in the bucket,
\* and the object is still there.
C20_Witness ==
    /\ last.op = "delete" /\ IsHttp(last.arg)
    /\ UseBucket
    /\ Lookup(bucket, ResolveBucketKey(last.arg)) # None


-----------------------------------------------------------------------------
(* Properties of the case-template routes                                  *)

\* C11: a GET of the template list, full or paginated, that arrives after a
\* successful create, update or delete has been answered is not answered
\* from a cache entry that was set before that mutation wrote the table.
C11_InvalidatedOnUpdate ==
    reply.src = "cache" => reply.stamp >= reply.g


\* The four variables are non-empty and none is placeholder text.
ProperlyConfigured(e) ==
    \A name \in {"endpoint", "bucketName", "accessKey", "secretKey"} :
        e[name] \notin {"", "placeholder"}

\* C21: isUsingBucketStorage() is true, and a storage call takes the remote
\* path, only if the endpoint, the bucket name, the access key and the
\* secret key are all non-empty and none of them is placeholder text; in
\* every other configuration the calls use the local filesystem.
C21_BackendConfiguration ==
    /\ IsUsingBucketStorage => ProperlyConfigured(env)
    /\ last.remote => ProperlyConfigured(env)
    /\ (~ProperlyConfigured(env) /\ NeedsBackend(last) /\ last.op # "getFileUrl")
          => last.local


-----------------------------------------------------------------------------
(* Further properties of the cache facade                                  *)

\* C22: at most one Redis client is created in the lifetime of the facade,
\* however often initRedis is entered and whatever calls run: the attempt
\* made by the constructor stays noted, and no later step creates a client.
C22_AtMostOneClient ==
    /\ connectionAttempted
    /\ clients <= 1
    /\ clients = 1 <=> redisUrl

\* The one client was created, its first ping failed, the connection came up
\* later and calls have run: no second client was created.
C22_Witness ==
    /\ clients = 1 /\ ~redis /\ conn = "up"
    /\ calls > 0 /\ res.op \in DataOps


\* isRedisAvailable() after the step.
AvailableNext == useRedis' /\ redis'

\* The first ping of initRedis has not been answered yet.
InitPending == Sent(InitProc)

\* C23: with REDIS_URL set, whenever the connection is established or
\* re-established while the facade runs on the memory map, and the initial
\* attempt is not still waiting for its ping, the facade is remote-active
\* again (isRedisAvailable() is true), whether it left remote mode through a
\* failed call, an error event or a failed initial attempt.
C23_RecoveryOnConnect ==
    [][(redisUrl /\ ConnectSignal /\ ~InitPending) => AvailableNext]_vars


\* C24: once disconnect, called by the handler of SIGTERM or SIGINT, has
\* completed, the Redis client the facade created (if any) is closed,
\* whatever state the facade was in, and the facade runs on the memory map.
C24_ShutdownCloses ==
    res.op = "disconnect"
        => /\ ~res.raised
           /\ clients > 0 => conn = "closed"
           /\ ~useRedis /\ ~redis


\* The ttl a call of set asks for: its argument, or the default when none
\* is given.
Requested(ttl) == IF ttl.given THEN ttl.ms ELSE DefaultTTL

C25_Step ==
    \A p \in Procs :
        (pc[p] = "idle" /\ pc'[p] = "set")
            => /\ loc'[p].expires = now + Requested(loc'[p].ttl)
               /\ loc'[p].ttlSeconds = CeilSeconds(Requested(loc'[p].ttl))

\* C25: set applies the default ttl exactly when the caller gives none;
\* every ttl the caller gives is the one applied: the entry expires at
\* now + ttl, and the remote write carries ttl rounded up to whole seconds.
C25_DefaultTtl == [][C25_Step]_vars


\* The Redis database holds an unexpired entry for k.
LiveRemote(k) == rstore[k].kind = "json" /\ ~(rstore[k].expires < now)

C26_Step ==
    \A p \in Procs :
        (pc[p] = "getDel" /\ Returns(p) /\ ~res'.failed)
            => ~LiveRemote(loc[p].key)

\* C26: in remote-active mode the delete that get(k) issues for an expired
\* entry removes that entry only: it never removes an unexpired entry that a
\* set(k, v') running concurrently has written in the meantime.
C26_GetDoesNotUndoSet == [][C26_Step]_vars

\* A get served by the memory map starts and returns in this step, no write
\* is under way, and fresh is the last completed set of its key.
SequentialGet ==
    /\ res'.op = "get"
    /\ calls' = calls + 1
    /\ \A q \in Procs : pc[q] \notin Writes
    /\ fresh.valid /\ fresh.key = res'.key

C27_Step == SequentialGet => res'.ret \in {Null, fresh.val}

\* C27: over any sequence of set, delete, clear and get calls interleaved
\* with degrade and reconnect transitions, get(k) returns null or the value
\* of the most recent completed set(k), never a value that a later completed
\* set(k) has replaced.
C27_NoSupersededValue == [][C27_Step]_vars

\* No request of the template routes is under way.
RoutesIdle == listReq.pc = "idle" /\ mutReq.pc = "idle"

\* C28: when a GET of the template list (miss, database read, cache.set of
\* 'templates:all') runs concurrently with a create, update or delete
\* (database write, cache.delete), then once both have completed the entry
\* of 'templates:all' is absent or holds the list as of the completed
\* mutation, never the list read before it.
C28_CacheAsideInterleaved ==
    (RoutesIdle /\ CacheHit(KeyAll)) => entries[KeyAll].data = templates

\* The memory map holds an entry of k whose expiry time has passed.
ExpiredInMap(k) == memoryCache[k] # NoEntry /\ memoryCache[k].expires < now

\* The backend state: the mode, the client and what Redis holds.
BackendState == <<useRedis, redis, handlers, conn, rstore, wire>>

C29_Step ==
    Sweeps => /\ \A k \in Keys :
                   memoryCache'[k] # memoryCache[k] => ExpiredInMap(k)
              /\ \A k \in Keys : ~ExpiredInMap(k)'
              /\ BackendState' = BackendState

\* C29: in every backend mode the background sweep runs again and again, so
\* an expired entry of the memory map is eventually removed even if its key
\* is never read again; a run of cleanup removes only expired entries and
\* leaves every unexpired entry and the backend state as they were.
C29_PeriodicSweep ==
    /\ [][C29_Step]_vars
    /\ \A k \in Keys : ExpiredInMap(k) ~> ~ExpiredInMap(k)

\* The last call to return was a set into the memory map; its entry is gone
\* from the map while the facade is remote-active, where no call reads or
\* writes the map: the sweep has removed it.
C29_Witness ==
    /\ res.op = "set" /\ res.src = "memory"
    /\ memoryCache[res.key] = NoEntry
    /\ useRedis /\ redis

TwinnedOps == {"get", "set", "delete", "clear", "stats"}

\* The facade and the MemoryCache have answered the last call alike.
SameAnswer ==
    /\ res.op = mres.op /\ res.key = mres.key /\ res.ret = mres.ret
    /\ ~res.raised /\ ~res.failed

C30_State ==
    ~redisUrl =>
        /\ ~(useRedis /\ redis)
        /\ wire = <<>> /\ conn = "none" /\ clients = 0
        /\ \A p \in Procs : pc[p] = "idle"
        /\ mirror = memoryCache
        /\ res.op \in TwinnedOps => SameAnswer

\* getStats returns: both report the keys of the facade's map.
C30_Step ==
    (~redisUrl /\ calls' = calls + 1 /\ res'.op = "stats")
        => mres'.keys = {k \in Keys : memoryCache[k] # NoEntry}

\* C30: with no REDIS_URL the facade stays in memory mode for the life of
\* the process (isRedisAvailable() is false in every state, no command is
\* ever sent to a Redis server), and it cannot be told from MemoryCache:
\* given the same get, set, delete, clear, cleanup and getStats calls at the
\* same times, both return the same results and hold the same map.
C30_MemoryEquivalence == []C30_State /\ [][C30_Step]_vars

\* With no REDIS_URL and some time after the start, a get has returned a
\* stored value, the same from the facade and from MemoryCache.
C30_Witness ==
    /\ ~redisUrl
    /\ res.op = "get" /\ res.ret \in Vals /\ mres.ret = res.ret
    /\ now > 0
=============================================================================
